---- MODULE Spec2Model ----
(***************************************************************************)
(* Model of the realtime pub/sub client (src/libs/client.ts).              *)
(*                                                                         *)
(* RealtimeClient extends EventEmitter2 with {wildcard: true}; the client  *)
(* owns one transport handle (ws), three internal subscriptions installed  *)
(* by the constructor, the waits created through waitFor, and the WaitFor  *)
(* factories returned by publish/send/reply.                               *)
(*                                                                         *)
(* Strings that end up in event keys are modelled by their structure: a    *)
(* string is the sequence of its '.'-separated segments, and a segment is  *)
(* the sequence of its '/'-separated components, so that                   *)
(* `${topic}.${messageType}`, `priv/${connectionId}`, startsWith('priv/')  *)
(* and the emitter's split on the delimiter are computed, not looked up.   *)
(***************************************************************************)
EXTENDS Integers, Sequences, FiniteSets, TLC

\* ------------------------------------------------------------------ bounds
MaxConnects == 2      \* connect() calls per client
MaxSent     == 2      \* envelopes transmitted per client
MaxWaits    == 2      \* waitFor* calls per client
MaxBlobs    == 1          \* Blob frames whose read is in progress
MaxHandlers == 2          \* handlers the application registers
MaxHeld     == 1      \* reply closures kept by the application per client

\* waitForAck / waitForReply default timeout (milliseconds)
DefaultTimeout == 5000

Clients == {"A", "B"}

\* ----------------------------------------------------------------- strings
S(x)   == << <<x>> >>            \* a one-segment, one-component string
Undef  == << >>                  \* JavaScript undefined
Empty  == S("")                  \* the empty string ''
Star   == S("*")                 \* the emitter's single-segment wildcard

\* JavaScript truthiness of a string-or-undefined value
Truthy(v) == v # Undef /\ v # Empty

\* `${v}` : undefined prints as the text "undefined"
Show(v) == IF v = Undef THEN S("undefined") ELSE v

\* `${a}.${b}` as the emitter splits it on '.'
Dot(a, b) == Show(a) \o Show(b)

\* `priv/${connectionId}`
Priv(connectionId) ==
    LET s == Show(connectionId)
    IN  << <<"priv">> \o s[1] >> \o Tail(s)

\* topic.startsWith('priv/')
StartsWithPriv(topic) == Len(topic[1]) >= 2 /\ topic[1][1] = "priv"

tAcks     == << <<"priv", "acks">> >>     \* 'priv/acks'
tMain     == S("main")
tClock    == S("clock")
mAck      == S("ack")
mResponse == S("response")
mWelcome  == S("welcome")
mGettime  == S("gettime")
kError    == S("error")
kClose    == S("close")
kSession  == Dot(S("session"), S("started"))

\* ------------------------------------------------------------------ values
\* message payload: a string, or an object read as a ResponseMessage
NoPayload == [kind |-> "none", id |-> Undef, status |-> Undef, data |-> Undef]
StrPayload(s) == [kind |-> "str", id |-> Undef, status |-> Undef, data |-> s]
Response(data, status, id) ==
    [kind |-> "obj", id |-> id, status |-> status, data |-> data]

\* the `data` member of an inbound envelope; has = FALSE when it is absent
NoData == [has |-> FALSE, data |-> Undef, id |-> Undef, conn |-> Undef,
           payload |-> NoPayload, connection |-> Undef]
Data(data, id, conn, payload, connection) ==
    [has |-> TRUE, data |-> data, id |-> id, conn |-> conn,
     payload |-> payload, connection |-> connection]

\* IncomingMessage (src/unnamed/part_001: 64-69)
Msg(topic, messageType, data, compression) ==
    [topic |-> topic, messageType |-> messageType, data |-> data,
     compression |-> compression]
NoMsg == Msg(Undef, Undef, NoData, FALSE)

\* a frame handed to onmessage: its physical encoding, whether its text is
\* valid JSON, and the decoded members
Frame(enc, ok, topic, messageType, data) ==
    [enc |-> enc, ok |-> ok, topic |-> topic, messageType |-> messageType,
     data |-> data]
NoFrame == Frame("none", FALSE, Undef, Undef, NoData)

\* the frame f as the transport hands it over in the encoding enc
Encoded(f, enc) == [f EXCEPT !.enc = enc]

\* the arguments of one emit call
Args(kind, msg, res, info, err) ==
    [kind |-> kind, msg |-> msg, res |-> res, info |-> info, err |-> err]
ArgsNone      == Args("none", NoMsg, NoPayload, Undef, "none")
ArgsMsg(m)    == Args("message", m, NoPayload, Undef, "none")   \* (message, reply)
ArgsRes(r)    == Args("response", NoMsg, r, Undef, "none")      \* (res)
ArgsInfo(i)   == Args("info", NoMsg, NoPayload, i, "none")      \* (connection)
ArgsError(e)  == Args("error", NoMsg, NoPayload, Undef, e)      \* (error)
ArgsClose(ev) == Args("close", NoMsg, NoPayload, ev, "none")   \* (event)

\* --------------------------------------------------------------- sequences
RECURSIVE SortedSeq(_)
SortedSeq(s) ==
    IF s = {} THEN << >>
    ELSE LET m == CHOOSE x \in s : \A y \in s : x <= y
         IN  <<m>> \o SortedSeq(s \ {m})

RECURSIVE Flatten(_)
Flatten(ss) == IF ss = << >> THEN << >> ELSE Head(ss) \o Flatten(Tail(ss))

Remove(s, i) == [j \in 1..(Len(s) - 1) |-> IF j < i THEN s[j] ELSE s[j + 1]]

Reverse(s) == [j \in 1..Len(s) |-> s[Len(s) + 1 - j]]

\* ------------------------------------------------- the emitter (wildcard)
\* A listener is [key, fn]; `listeners` keeps them in registration order.
\* fn.kind: "onAck" | "onResponse" | "onWelcome" (constructor), "wait"
\* (the listener of waits[fn.n]), "app" (application handler number fn.n).
StarSeg == <<"*">>

InternalFn(kind) == [kind |-> kind, n |-> 0]
WaitFn(n)        == [kind |-> "wait", n |-> n]
AppFn(n)         == [kind |-> "app", n |-> n]
ThrowerFn(n)     == [kind |-> "thrower", n |-> n]  \* a handler that throws

\* on(key, fn): the listener is appended to the leaf of its key
On(L, key, fn) == Append(L, [key |-> key, fn |-> fn])

\* A listener registered on lk is reached by an emit of ek when both have the
\* same number of segments and, segment by segment, the emitted segment is
\* '*' (every branch is visited), or the registered one is '*' or equal.
Matches(lk, ek) ==
    /\ Len(lk) = Len(ek)
    /\ \A i \in 1..Len(ek) :
          ek[i] = StarSeg \/ lk[i] = StarSeg \/ lk[i] = ek[i]

\* creation stamp of the branch that listener j lies on at depth i: the
\* oldest registered listener below the same path
Created(L, j, i) ==
    CHOOSE m \in 1..Len(L) :
        /\ Len(L[m].key) >= i
        /\ SubSeq(L[m].key, 1, i) = SubSeq(L[j].key, 1, i)
        /\ \A k \in 1..(m - 1) :
              ~(Len(L[k].key) >= i
                /\ SubSeq(L[k].key, 1, i) = SubSeq(L[j].key, 1, i))

\* The order in which the matching listeners are collected: for a concrete
\* emitted segment the equal branch before the '*' branch; for an emitted
\* '*' the branches from the newest to the oldest; at a leaf, registration
\* order.  idxs all lie below one node at depth i - 1.
RECURSIVE Visit(_, _, _, _)
Visit(L, ek, idxs, i) ==
    IF idxs = {} THEN << >>
    ELSE IF i > Len(ek) THEN SortedSeq(idxs)
    ELSE IF ek[i] # StarSeg
         THEN Visit(L, ek, {j \in idxs : L[j].key[i] = ek[i]}, i + 1)
              \o Visit(L, ek, {j \in idxs : L[j].key[i] = StarSeg}, i + 1)
    ELSE LET stamps == Reverse(SortedSeq({Created(L, j, i) : j \in idxs}))
         IN  Flatten([b \in 1..Len(stamps) |->
                 Visit(L, ek,
                       {j \in idxs : L[j].key[i] = L[stamps[b]].key[i]},
                       i + 1)])

\* the listeners an emit of ek invokes, in order (a snapshot of their fns)
Collect(L, ek) ==
    LET order == Visit(L, ek, {j \in 1..Len(L) : Matches(L[j].key, ek)}, 1)
    IN  [j \in 1..Len(order) |-> L[order[j]].fn]

\* off(key, fn): the leaves an off of key reaches are the equal branch for a
\* concrete segment and every branch for '*'; fn is removed from them
OffReach(lk, ek) ==
    /\ Len(lk) = Len(ek)
    /\ \A i \in 1..Len(ek) : ek[i] = StarSeg \/ lk[i] = ek[i]

Off(L, key, fn) ==
    LET hit == {j \in 1..Len(L) : L[j].fn = fn /\ OffReach(L[j].key, key)}
    IN  IF hit = {} THEN L
        ELSE Remove(L, CHOOSE j \in hit : \A k \in hit : j <= k)

\* ------------------------------------------------------------ client state
VARIABLES
    ws,          \* ws[c]: the transport handle the client holds, 0 for null
    made,        \* made[c]: transports constructed so far (handles 1..made)
    live,        \* live[c]: the constructed handles that were not closed
    listeners,   \* listeners[c]: the emitter's listeners, registration order
    waits,       \* waits[c]: the promises returned by waitFor
    objs,        \* objs[c]: the MessageOptions objects passed to publish/send
    factories,   \* factories[c]: the objs a WaitFor factory was built on
    sent,        \* sent[c]: the envelopes handed to ws.send, in order
    held,        \* held[c]: messages whose reply function the application kept
    routed,      \* routed[c]: how many of sent[c] the gateway has routed
    transports,  \* transports[c][h]: handle h, its connect() promise, open?,
                 \* and whether the gateway subscribed it to the topic
    decoding,    \* decoding[c]: Blob frames whose text() is still awaited
    fired,       \* the emits and handler runs of the last call or callback
    watch,       \* whether the behaviour records fired (never changes)
    cur          \* the error the last call or callback raised, and its name

vars == <<ws, made, live, listeners, waits, objs, factories, sent, held,
          routed, transports, decoding, fired, watch, cur>>

\* nothing emitted, no handler run
Quiet == [emits |-> << >>, ran |-> << >>]

\* the listeners the constructor installs (client.ts 104, 110, 119)
InitListeners ==
    << [key |-> Dot(tAcks, mAck),      fn |-> InternalFn("onAck")],
       [key |-> Dot(Star, mResponse),  fn |-> InternalFn("onResponse")],
       [key |-> Dot(tMain, mWelcome),  fn |-> InternalFn("onWelcome")] >>

\* The state of client c as one record; thrown is the error propagating out
\* of the running call ("none" when there is none), cause the inbound frame
\* being dispatched.
St(c) ==
    [ws |-> ws[c], made |-> made[c], live |-> live[c],
     listeners |-> listeners[c], waits |-> waits[c], objs |-> objs[c],
     factories |-> factories[c], sent |-> sent[c], held |-> held[c],
     transports |-> transports[c], decoding |-> decoding[c],
     fired |-> Quiet, thrown |-> "none", cause |-> NoFrame]

Throw(st, e) == [st EXCEPT !.thrown = e]

\* ------------------------------------------------------- waits (waitFor)
\* EventEmitter2.waitFor(event, {timeout}): a promise, a listener on the
\* event and, for a timeout > 0, a timer.
\* (mutant) the timeout option is not applied: no timer is started
NewWaitNoTimer(key, timeout) ==
    [key |-> key, timeout |-> timeout, state |-> "pending",
     timer |-> FALSE, args |-> ArgsNone, err |-> "none",
     calls |-> 0, by |-> NoFrame]

NewWait(key, timeout) ==
    [key |-> key, timeout |-> timeout, state |-> "pending",
     timer |-> (timeout > 0), args |-> ArgsNone, err |-> "none",
     calls |-> 0, by |-> NoFrame]

waitFor(st, key, timeout) ==
    LET n == Len(st.waits) + 1
    IN  [st EXCEPT !.waits = Append(@, NewWait(key, timeout)),
                   !.listeners = On(@, key, WaitFn(n))]

\* (mutant) the listener stays registered after it ran
WaitListenerStays(st, n, args) ==
    LET w == st.waits[n]
    IN  [st EXCEPT
          !.waits[n] =
             IF w.state = "pending"
             THEN [w EXCEPT !.state = "resolved", !.args = args,
                            !.timer = FALSE, !.calls = @ + 1,
                            !.by = st.cause]
             ELSE [w EXCEPT !.timer = FALSE, !.calls = @ + 1]]

\* (mutant) the timer is not cleared when the event fires
WaitListenerKeepsTimer(st, n, args) ==
    LET w == st.waits[n]
    IN  [st EXCEPT
          !.listeners = Off(@, w.key, WaitFn(n)),
          !.waits[n] =
             IF w.state = "pending"
             THEN [w EXCEPT !.state = "resolved", !.args = args,
                            !.calls = @ + 1, !.by = st.cause]
             ELSE [w EXCEPT !.calls = @ + 1]]

\* the listener of wait n: removes itself, clears the timer and resolves
\* the promise with the arguments of the event (a settled promise stays)
WaitListener(st, n, args) ==
    LET w == st.waits[n]
    IN  [st EXCEPT
          !.listeners = Off(@, w.key, WaitFn(n)),
          !.waits[n] =
             IF w.state = "pending"
             THEN [w EXCEPT !.state = "resolved", !.args = args,
                            !.timer = FALSE, !.calls = @ + 1,
                            !.by = st.cause]
             ELSE [w EXCEPT !.timer = FALSE, !.calls = @ + 1]]

\* (mutant) the timeout rejects the promise and leaves the listener
TimerFiresLeavesListener(st, n) ==
    LET w == st.waits[n]
    IN  [st EXCEPT
          !.waits[n] =
             IF w.state = "pending"
             THEN [w EXCEPT !.state = "rejected", !.err = "timeout",
                            !.timer = FALSE]
             ELSE [w EXCEPT !.timer = FALSE]]

\* (mutant) the timeout removes every listener of the wait's key
TimerFiresClearsKey(st, n) ==
    LET w == st.waits[n]
    IN  [st EXCEPT
          !.listeners = SelectSeq(@, LAMBDA l : l.key # w.key),
          !.waits[n] =
             IF w.state = "pending"
             THEN [w EXCEPT !.state = "rejected", !.err = "timeout",
                            !.timer = FALSE]
             ELSE [w EXCEPT !.timer = FALSE]]

\* the timer of wait n fires: the listener is removed and the promise is
\* rejected with Error('timeout')
TimerFires(st, n) ==
    LET w == st.waits[n]
    IN  [st EXCEPT
          !.listeners = Off(@, w.key, WaitFn(n)),
          !.waits[n] =
             IF w.state = "pending"
             THEN [w EXCEPT !.state = "rejected", !.err = "timeout",
                            !.timer = FALSE]
             ELSE [w EXCEPT !.timer = FALSE]]

\* ---------------------------------------------------------------- emit
\* An application handler keeps the reply function it is handed (with the
\* message it is bound to) while it has room for it.
AppHandler(st, n, args) ==
    IF args.kind = "message" /\ Len(st.held) < MaxHeld
    THEN [st EXCEPT !.held = Append(@, args.msg)]
    ELSE st

RECURSIVE Emit(_, _, _)
RECURSIVE RunAll(_, _, _)

\* The constructor's handlers read their first argument as the message.
\* Reached through a wildcard by an event that carries no message (ack.<id>
\* has no argument, response.<id> carries the ResponseMessage), the property
\* reads below fail as they do on a message without data or topic.
MessageArg(args) == IF args.kind = "message" THEN args.msg ELSE NoMsg

\* this.on('priv/acks.ack', ...): emits ack.<message.data.data>
onAck(st, args) ==
    LET message == MessageArg(args)
    IN  IF ~message.data.has THEN Throw(st, "TypeError")
        ELSE Emit(st, Dot(mAck, message.data.data), ArgsNone)

\* this.on('*.response', ...): on a priv/ topic emits response.<res.id>
onResponse(st, args) ==
    LET message == MessageArg(args)
    IN  IF message.topic = Undef THEN Throw(st, "TypeError")
        ELSE IF ~StartsWithPriv(message.topic) THEN st
        ELSE IF ~message.data.has \/ message.data.payload.kind = "none"
             THEN Throw(st, "TypeError")
        ELSE LET res == message.data.payload
             IN  Emit(st, Dot(mResponse, res.id), ArgsRes(res))

\* this.on('main.welcome', ...): emits session.started
onWelcome(st, args) ==
    LET message == MessageArg(args)
    IN  IF ~message.data.has THEN Throw(st, "TypeError")
        ELSE Emit(st, kSession, ArgsInfo(message.data.connection))

Invoke(st, fn, args) ==
    LET s1 == [st EXCEPT !.fired.ran = Append(@, fn)]
    IN  CASE fn.kind = "onAck"      -> onAck(s1, args)
          [] fn.kind = "onResponse" -> onResponse(s1, args)
          [] fn.kind = "onWelcome"  -> onWelcome(s1, args)
          [] fn.kind = "wait"       -> WaitListener(s1, fn.n, args)
          [] fn.kind = "thrower"    -> Throw(s1, "HandlerError")
          [] OTHER                  -> AppHandler(s1, fn.n, args)

\* the handlers run one after the other; an exception ends the emit
RunAll(st, hs, args) ==
    IF hs = << >> \/ st.thrown # "none" THEN st
    ELSE RunAll(Invoke(st, Head(hs), args), Tail(hs), args)

\* emit(key, ...args): an 'error' event without listener throws its error
Emit(st, key, args) ==
    LET hs == Collect(st.listeners, key)
        s1 == [st EXCEPT !.fired.emits =
                  Append(@, [key |-> key, args |-> args])]
    IN  IF hs = << >>
        THEN IF key = kError THEN Throw(s1, args.err) ELSE s1
        ELSE RunAll(s1, hs, args)

\* -------------------------------------------------------- client methods
NotEstablished == "WebSocket connection is not established"
NoConnectionId == "Connection ID is not available in the message"

Envelope(type, topic, messageType, payload, id) ==
    [type |-> type, topic |-> topic, messageType |-> messageType,
     payload |-> payload, id |-> id]

\* ws.send(JSON.stringify(envelope)) on the handle the client holds
Transmit(st, type, topic, messageType, payload, id) ==
    [st EXCEPT !.sent =
        Append(@, Envelope(type, topic, messageType, payload, id))]

\* (mutant) connect() installs the internal subscriptions once more
connectInstallsAgain(st) ==
    [st EXCEPT !.made = @ + 1, !.ws = st.made + 1,
               !.live = @ \cup {st.made + 1},
               !.listeners = @ \o InitListeners,
               !.transports = Append(@, [promise |-> "resolved",
                                         open |-> FALSE,
                                         subscribed |-> FALSE])]

\* (mutant) the promise of connect() is left to the transport's events
connectAwaitsOpen(st) ==
    [st EXCEPT !.made = @ + 1, !.ws = st.made + 1,
               !.live = @ \cup {st.made + 1},
               !.transports = Append(@, [promise |-> "pending",
                                         open |-> FALSE,
                                         subscribed |-> FALSE])]

\* connect(): a new transport replaces the reference held in ws
\* (the callbacks are set on it, then resolve() ends the executor)
connect(st) ==
    [st EXCEPT !.made = @ + 1, !.ws = st.made + 1,
               !.live = @ \cup {st.made + 1},
               !.transports = Append(@, [promise |-> "resolved",
                                         open |-> FALSE,
                                         subscribed |-> FALSE])]

\* (mutant) disconnect() also fails the waits that are pending
disconnectCancelsWaits(st) ==
    IF st.ws # 0
    THEN [st EXCEPT !.live = @ \ {st.ws}, !.ws = 0,
                    !.waits = [n \in 1..Len(@) |->
                                 IF @[n].state = "pending"
                                 THEN [@[n] EXCEPT !.state = "rejected",
                                                   !.err = "closed",
                                                   !.timer = FALSE]
                                 ELSE @[n]]]
    ELSE st

\* (mutant) the handle is closed and the reference is kept
disconnectKeepsRef(st) ==
    IF st.ws # 0
    THEN [st EXCEPT !.live = @ \ {st.ws}]
    ELSE st

\* disconnect(): closes the handle held, if any, and clears the reference
disconnect(st) ==
    IF st.ws # 0
    THEN [st EXCEPT !.live = @ \ {st.ws}, !.ws = 0]
    ELSE st

\* The options argument of publish/send: o = 0 stands for a call without
\* options or with a new object literal {id, messageType}, o > 0 for the
\* caller's object objs[o] passed again.  id is Undef when none is given.
WithOptions(st, o, id, messageType) ==
    IF o = 0
    THEN [st EXCEPT !.objs = Append(@, [id |-> id,
                                         messageType |-> messageType])]
    ELSE st

OptionsRef(st, o) == IF o = 0 THEN Len(st.objs) + 1 ELSE o

\* options.id = options.id || this.getRandomId(), on the object itself
AssignId(st, k, random) ==
    [st EXCEPT !.objs[k].id = IF Truthy(@) THEN @ ELSE random]

\* (mutant) the id is assigned before the handle is checked
publishAssignsFirst(st, topic, payload, o, id, messageType, random) ==
    LET k  == OptionsRef(st, o)
        s1 == AssignId(WithOptions(st, o, id, messageType), k, random)
    IN  IF st.ws = 0 THEN Throw(s1, NotEstablished)
        ELSE LET s2 == Transmit(s1, "publish", topic,
                                s1.objs[k].messageType, payload,
                                s1.objs[k].id)
             IN  [s2 EXCEPT !.factories = @ \cup {k}]

\* publish(topic, payload, options); random is what getRandomId() returns
publish(st, topic, payload, o, id, messageType, random) ==
    IF st.ws = 0 THEN Throw(st, NotEstablished)
    ELSE LET k  == OptionsRef(st, o)
             s1 == AssignId(WithOptions(st, o, id, messageType), k, random)
             s2 == Transmit(s1, "publish", topic, s1.objs[k].messageType,
                            payload, s1.objs[k].id)
         IN  [s2 EXCEPT !.factories = @ \cup {k}]

\* send(payload, options)
send(st, payload, o, id, messageType, random) ==
    IF st.ws = 0 THEN Throw(st, NotEstablished)
    ELSE LET k  == OptionsRef(st, o)
             s1 == AssignId(WithOptions(st, o, id, messageType), k, random)
             s2 == Transmit(s1, "message", Undef, s1.objs[k].messageType,
                            payload, s1.objs[k].id)
         IN  [s2 EXCEPT !.factories = @ \cup {k}]

subscribeRemoteTopic(st, topic) ==
    IF st.ws # 0
    THEN Transmit(st, "subscribe", topic, Undef, NoPayload, Undef)
    ELSE Throw(st, NotEstablished)

unsubscribeRemoteTopic(st, topic) ==
    IF st.ws # 0
    THEN Transmit(st, "unsubscribe", topic, Undef, NoPayload, Undef)
    ELSE Throw(st, NotEstablished)

\* the parameter `status: string = 'ok'` of the reply function
StatusOr(status) == IF status = Undef THEN S("ok") ELSE status

\* (mutant) the connection id is not checked before publishing
replyUnchecked(st, message, data, status, random) ==
    IF ~message.data.has THEN Throw(st, "TypeError")
    ELSE publish(st, Priv(message.data.conn),
                 Response(data, StatusOr(status), message.data.id),
                 0, Undef, mResponse, random)

\* (mutant) the response carries the id of the reply envelope, not the
\* id of the message answered
replyOwnId(st, message, data, status, random) ==
    IF ~message.data.has THEN Throw(st, "TypeError")
    ELSE LET connectionId == message.data.conn
         IN  IF Truthy(connectionId)
             THEN publish(st, Priv(connectionId),
                          Response(data, StatusOr(status), random),
                          0, Undef, mResponse, random)
             ELSE Throw(st, NoConnectionId)

\* (mutant) the status is transmitted as passed, without default
replyStatusAsGiven(st, message, data, status, random) ==
    IF ~message.data.has THEN Throw(st, "TypeError")
    ELSE LET connectionId == message.data.conn
         IN  IF Truthy(connectionId)
             THEN publish(st, Priv(connectionId),
                          Response(data, status, message.data.id),
                          0, Undef, mResponse, random)
             ELSE Throw(st, NoConnectionId)

\* (mutant) the reply envelope is published under the id of the message
\* answered: options.id = message.data.id
replyReusesId(st, message, data, status, random) ==
    IF ~message.data.has THEN Throw(st, "TypeError")
    ELSE LET connectionId == message.data.conn
         IN  IF Truthy(connectionId)
             THEN publish(st, Priv(connectionId),
                          Response(data, StatusOr(status), message.data.id),
                          0, message.data.id, mResponse, random)
             ELSE Throw(st, NoConnectionId)

\* reply(client, message)(data, status): message.data.client?.connectionId
reply(st, message, data, status, random) ==
    IF ~message.data.has THEN Throw(st, "TypeError")
    ELSE LET connectionId == message.data.conn
         IN  IF Truthy(connectionId)
             THEN publish(st, Priv(connectionId),
                          Response(data, StatusOr(status), message.data.id),
                          0, Undef, mResponse, random)
             ELSE Throw(st, NoConnectionId)

\* WaitFor.waitForAck / waitForReply on the factory built on objs[k]
waitForAck(st, k, timeout) ==
    waitFor(st, Dot(mAck, st.objs[k].id), timeout)

waitForReply(st, k, timeout) ==
    waitFor(st, Dot(mResponse, st.objs[k].id), timeout)

\* (mutant) the error is emitted twice
handleErrorTwice(st, error) ==
    Emit(Emit(st, kError, ArgsError(error)), kError, ArgsError(error))

\* handleError(error)
handleError(st, error) == Emit(st, kError, ArgsError(error))

\* (mutant) 'close' is emitted without the event
handleCloseNoEvent(st, event) == Emit(st, kClose, ArgsClose(Undef))

\* handleClose(event)
handleClose(st, event) == Emit(st, kClose, ArgsClose(event))

\* (mutant) the compression flag is not derived from the frame's encoding
parsedFlagFalse(st, f) ==
    IF ~f.ok THEN handleError(st, "SyntaxError")
    ELSE LET messageEvent == Msg(f.topic, f.messageType, f.data, FALSE)
         IN  IF Truthy(f.messageType)
             THEN Emit([st EXCEPT !.cause = f],
                       Dot(f.topic, f.messageType), ArgsMsg(messageEvent))
             ELSE st

\* onMessage from JSON.parse on: the text of the frame is at hand
parsed(st, f) ==
    IF ~f.ok THEN handleError(st, "SyntaxError")
    ELSE LET messageEvent ==
                 Msg(f.topic, f.messageType, f.data, f.enc # "text")
         IN  IF Truthy(f.messageType)
             THEN Emit([st EXCEPT !.cause = f],
                       Dot(f.topic, f.messageType), ArgsMsg(messageEvent))
             ELSE st

\* onMessage(event), without a custom messageDeserializer: a Blob is read
\* with await event.data.text(), so the rest runs when the read is done
onMessage(st, f) ==
    IF f.enc \notin {"text", "binary", "blob"}
    THEN handleError(st, "Unable to deserialize incoming message")
    ELSE IF f.enc = "blob"
         THEN [st EXCEPT !.decoding = Append(@, f)]
    ELSE parsed(st, f)

\* the read of the oldest Blob in progress is done: onMessage resumes
resume(st) ==
    parsed([st EXCEPT !.decoding = Tail(@)], Head(st.decoding))

\* this.ws.onerror: handleError(error), then reject(error) on the promise
\* of the connect() that made handle h (a settled promise stays as it is)
onerror(st, h) ==
    LET s1 == handleError(st, "WebSocket error event")
    IN  IF s1.thrown # "none" THEN s1
        ELSE [s1 EXCEPT !.transports[h].promise =
                 IF @ = "pending" THEN "rejected" ELSE @]

\* ------------------------------------------------------------------ inputs
Timeouts  == {0, DefaultTimeout}          \* waitFor*(timeout)
CallerIds == {Undef, Star}                \* options.id given by the caller
RandomIds == {S("a"), S("b")}             \* results of getRandomId()
WireIds   == {S("a"), S("b"), Star}       \* ids carried by inbound frames
ConnIds   == {Undef, Empty, S("c2")}      \* data.client.connectionId
AppKeys   == {Dot(tClock, mGettime), kError}
tPrivC1   == Priv(S("c1"))                \* the client's private topic
CloseEvents == {S("1000"), S("1006")}     \* CloseEvent: its code

AckData(i)  == Data(i, Undef, Undef, NoPayload, Undef)
ResData(i)  == Data(Undef, Undef, Undef,
                    Response(S("v"), S("ok"), i), Undef)
AppData(cn) == Data(Undef, S("a"), cn, StrPayload(S("p")), Undef)

\* the frames the transport may deliver
Frames ==
    \* acknowledgements, and frames that reach the same keys
    {Frame("text", TRUE, tAcks, mAck, AckData(i)) : i \in WireIds}
    \cup {Frame("text", TRUE, tAcks, mAck, NoData),
          Frame("text", TRUE, Star, mAck, AckData(S("a"))),
          Frame("text", TRUE, mAck, S("a"), NoData)}
    \* responses
    \cup {Frame("text", TRUE, tPrivC1, mResponse, ResData(i)) : i \in WireIds}
    \cup {Frame("text", TRUE, tClock, mResponse, ResData(S("a"))),
          Frame("text", TRUE, tPrivC1, Star, ResData(S("a"))),
          Frame("text", TRUE, mResponse, S("a"), NoData),
          Frame("text", TRUE, tPrivC1, mResponse,
                Data(Undef, Undef, Undef, StrPayload(S("p")), Undef))}
    \* application messages, with and without a connection identity
    \cup {Frame("text", TRUE, tClock, mGettime, AppData(cn)) : cn \in ConnIds}
    \cup {Frame("binary", TRUE, tClock, mGettime, AppData(S("c2"))),
          Frame("text", TRUE, tClock, mGettime, NoData),
          Frame("text", TRUE, tClock, Undef, AppData(Undef)),
          Frame("text", FALSE, Undef, Undef, NoData)}

\* ----------------------------------------------------------------- actions
Put(c, st) ==
    /\ ws'        = [ws EXCEPT ![c] = st.ws]
    /\ made'      = [made EXCEPT ![c] = st.made]
    /\ live'      = [live EXCEPT ![c] = st.live]
    /\ listeners' = [listeners EXCEPT ![c] = st.listeners]
    /\ waits'     = [waits EXCEPT ![c] = st.waits]
    /\ objs'      = [objs EXCEPT ![c] = st.objs]
    /\ factories' = [factories EXCEPT ![c] = st.factories]
    /\ sent'      = [sent EXCEPT ![c] = st.sent]
    /\ held'      = [held EXCEPT ![c] = st.held]
    /\ transports' = [transports EXCEPT ![c] = st.transports]
    /\ decoding'  = [decoding EXCEPT ![c] = st.decoding]

\* cur after a call or callback that raised nothing
Returned == [op |-> "-", err |-> "none"]

\* the call op of client c ran from St(c) to st
Did(c, op, st) ==
    /\ Len(st.sent) <= MaxSent
    /\ Put(c, st)
    /\ fired' = IF watch THEN st.fired ELSE Quiet
    /\ watch' = watch
    /\ cur' = IF st.thrown = "none" THEN Returned
              ELSE [op |-> op, err |-> st.thrown]

Constructed ==
    /\ ws        = [c \in Clients |-> 0]
    /\ made      = [c \in Clients |-> 0]
    /\ live      = [c \in Clients |-> {}]
    /\ listeners = [c \in Clients |-> InitListeners]
    /\ waits     = [c \in Clients |-> << >>]
    /\ objs      = [c \in Clients |-> << >>]
    /\ factories = [c \in Clients |-> {}]
    /\ sent      = [c \in Clients |-> << >>]
    /\ held      = [c \in Clients |-> << >>]
    /\ routed    = [c \in Clients |-> 0]
    /\ transports = [c \in Clients |-> << >>]
    /\ decoding  = [c \in Clients |-> << >>]
    /\ fired     = Quiet
    /\ cur       = Returned

Init == Constructed /\ watch = FALSE

Connect(c) ==
    /\ made[c] < MaxConnects
    /\ Did(c, "connect", connect(St(c)))
    /\ UNCHANGED routed

Disconnect(c) ==
    /\ Did(c, "disconnect", disconnect(St(c)))
    /\ UNCHANGED routed

Publish(c, ids, randoms) ==
    /\ \E o \in 0..Len(objs[c]), id \in ids, random \in randoms :
          /\ o > 0 => id = Undef
          /\ Did(c, "publish",
                 publish(St(c), tClock, StrPayload(S("p")), o, id,
                         mGettime, random))
    /\ UNCHANGED routed

Send(c, ids, randoms) ==
    /\ \E o \in 0..Len(objs[c]), id \in ids, random \in randoms :
          /\ o > 0 => id = Undef
          /\ Did(c, "send",
                 send(St(c), StrPayload(S("p")), o, id, mGettime, random))
    /\ UNCHANGED routed

SubscribeRemoteTopic(c) ==
    /\ Did(c, "subscribeRemoteTopic", subscribeRemoteTopic(St(c), tClock))
    /\ UNCHANGED routed

UnsubscribeRemoteTopic(c) ==
    /\ Did(c, "unsubscribeRemoteTopic",
           unsubscribeRemoteTopic(St(c), tClock))
    /\ UNCHANGED routed

WaitForAck(c, timeouts) ==
    /\ Len(waits[c]) < MaxWaits
    /\ \E k \in factories[c], timeout \in timeouts :
          Did(c, "waitForAck", waitForAck(St(c), k, timeout))
    /\ UNCHANGED routed

WaitForReply(c, timeouts) ==
    /\ Len(waits[c]) < MaxWaits
    /\ \E k \in factories[c], timeout \in timeouts :
          Did(c, "waitForReply", waitForReply(St(c), k, timeout))
    /\ UNCHANGED routed

\* the timer of a wait fires
Timeout(c, n) ==
    /\ n \in 1..Len(waits[c])
    /\ waits[c][n].timer
    /\ Did(c, "timeout", TimerFires(St(c), n))
    /\ UNCHANGED routed

\* the application registers a handler: client.on(key, handler)
RegisterOn(c, keys) ==
    /\ \E key \in keys :
          /\ \A j \in 1..Len(listeners[c]) :
                listeners[c][j].fn.kind = "app" => listeners[c][j].key # key
          /\ LET n == Cardinality({j \in 1..Len(listeners[c]) :
                                     listeners[c][j].fn.kind = "app"}) + 1
             IN  /\ n <= MaxHandlers
                 /\ Did(c, "on", [St(c) EXCEPT
                                    !.listeners = On(@, key, AppFn(n))])
    /\ UNCHANGED routed

Register(c) == RegisterOn(c, AppKeys)

\* the application waits for an event: client.waitFor(key), no timeout
WaitForEvent(c, keys) ==
    /\ Len(waits[c]) < MaxWaits
    /\ \E key \in keys : Did(c, "waitFor", waitFor(St(c), key, 0))
    /\ UNCHANGED routed

\* the application calls a reply function it kept: reply(data, status)
ReplyWith(c, k, random, data, status) ==
    /\ k \in 1..Len(held[c])
    /\ Did(c, "reply", reply(St(c), held[c][k], data, status, random))
    /\ UNCHANGED routed

Reply(c, k, randoms, statuses) ==
    \E random \in randoms, status \in statuses :
        ReplyWith(c, k, random, S("v"), status)

\* a live transport of c hands frame f to onmessage
Deliver(c, f) ==
    /\ live[c] # {}
    /\ f.enc = "blob" => Len(decoding[c]) < MaxBlobs
    /\ Did(c, "onMessage", onMessage(St(c), f))
    /\ UNCHANGED routed

\* the read of a Blob frame of c is done
BlobRead(c) ==
    /\ decoding[c] # << >>
    /\ Did(c, "onMessage", resume(St(c)))
    /\ UNCHANGED routed

\* the transport h of c has opened its connection (no callback is set for it)
Open(c) ==
    /\ \E h \in live[c] :
          /\ ~transports[c][h].open
          /\ Did(c, "open", [St(c) EXCEPT !.transports[h].open = TRUE])
    /\ UNCHANGED routed

\* a live transport of c reports that the connection closed: onclose
CloseWith(c, event) ==
    /\ \E h \in live[c] :
          Did(c, "onclose",
              handleClose([St(c) EXCEPT !.transports[h].open = FALSE], event))
    /\ UNCHANGED routed

Close(c) == \E event \in CloseEvents : CloseWith(c, event)

\* a live transport of c reports an error: onerror
TransportError(c) ==
    /\ \E h \in live[c] : Did(c, "onerror", onerror(St(c), h))
    /\ UNCHANGED routed

\* one client against an arbitrary gateway
Solo == "A"

CorrFrames == {f \in Frames : f.topic # tClock \/ f.messageType = mResponse}

Next ==
    \/ Connect(Solo)
    \/ Disconnect(Solo)
    \/ Publish(Solo, CallerIds, RandomIds)
    \/ WaitForAck(Solo, {DefaultTimeout})
    \/ WaitForReply(Solo, {DefaultTimeout})
    \/ \E n \in 1..MaxWaits : Timeout(Solo, n)
    \/ \E f \in CorrFrames : Deliver(Solo, f)

Spec == Init /\ [][Next]_vars

\* the same client with the timers of its waits run by the event loop: a
\* timer that is due fires
LiveFrames ==
    {Frame("text", TRUE, tAcks, mAck, AckData(i)) : i \in {S("a"), Star}}
    \cup {Frame("text", TRUE, tPrivC1, mResponse, ResData(S("a")))}

NextLive ==
    \/ Connect(Solo)
    \/ Disconnect(Solo)
    \/ Publish(Solo, {Undef}, RandomIds)
    \/ WaitForAck(Solo, Timeouts)
    \/ WaitForReply(Solo, Timeouts)
    \/ \E n \in 1..MaxWaits : Timeout(Solo, n)
    \/ \E f \in LiveFrames : Deliver(Solo, f)
    \/ Close(Solo)
    \/ TransportError(Solo)

FairSpec ==
    /\ Init /\ [][NextLive]_vars
    /\ \A n \in 1..MaxWaits : WF_vars(Timeout(Solo, n))

\* the client and its application: every call of the API, the handlers the
\* application registers and the reply functions it keeps
AppFrames ==
    {f \in Frames : f.topic = tClock /\ f.messageType # mResponse}
    \cup {Frame("text", FALSE, Undef, Undef, NoData)}

NextApi ==
    \/ Connect(Solo)
    \/ Disconnect(Solo)
    \/ Publish(Solo, {Undef}, {S("a")})
    \/ Send(Solo, {Undef}, {S("a")})
    \/ SubscribeRemoteTopic(Solo)
    \/ UnsubscribeRemoteTopic(Solo)
    \/ WaitForReply(Solo, {DefaultTimeout})
    \/ Register(Solo)
    \/ \E k \in 1..MaxHeld : Reply(Solo, k, {S("b")}, {S("ok")})
    \/ \E f \in AppFrames : Deliver(Solo, f)
    \/ Close(Solo)
    \/ TransportError(Solo)

SpecApi == Init /\ [][NextApi]_vars

\* ----------------------------------------------------------------- events
\* The client with everything it emits recorded: the handlers of the
\* application on exact and wildcard keys, frames of every encoding, and
\* the open, close and error events of its transports.
mGetDotTime == S("get") \o S("time")     \* the messageType 'get.time'
tNotes      == S("notifications")
tSession    == S("session")
mStarted    == S("started")
EvKeys      == {Dot(tClock, Star), Dot(tClock, mGettime), kError, kClose,
                kSession}
WelcomeData == Data(Undef, Undef, Undef, NoPayload, S("conn1"))

EvFrames ==
    {Frame(enc, TRUE, tClock, mGettime, AppData(S("c2"))) :
        enc \in {"text", "binary", "blob"}}
    \cup {Frame("text", TRUE, tClock, mGetDotTime, AppData(S("c2"))),
          Frame("text", TRUE, tNotes, mGettime, AppData(S("c2"))),
          Frame("text", TRUE, Star, mGettime, AppData(S("c2"))),
          Frame("text", TRUE, tMain, mWelcome, WelcomeData),
          Frame("text", TRUE, tSession, mStarted, AppData(S("c2"))),
          Frame("text", TRUE, tAcks, mAck, NoData),
          Frame("text", TRUE, tClock, Undef, AppData(S("c2"))),
          Frame("text", TRUE, Undef, mGettime, AppData(S("c2"))),
          Frame("text", FALSE, Undef, Undef, NoData),
          Frame("blob", FALSE, Undef, Undef, NoData),
          Frame("other", FALSE, Undef, Undef, NoData)}

NextEv ==
    \/ Connect(Solo)
    \/ RegisterOn(Solo, EvKeys)
    \/ WaitForEvent(Solo, {kSession})
    \/ \E f \in EvFrames : Deliver(Solo, f)
    \/ BlobRead(Solo)
    \/ TransportError(Solo)

InitEv == Constructed /\ watch = TRUE

SpecEv == InitEv /\ [][NextEv]_vars

\* The life of the connection: connect() and disconnect(), the transports'
\* open, close and error events, the welcome envelope, and an application
\* that listens and waits for 'error', 'close' and 'session.started'.
ConnFrames == {Frame("text", TRUE, tMain, mWelcome, WelcomeData)}

NextConn ==
    \/ Connect(Solo)
    \/ Disconnect(Solo)
    \/ RegisterOn(Solo, {kError, kClose})
    \/ WaitForEvent(Solo, {kClose, kSession})
    \/ \E f \in ConnFrames : Deliver(Solo, f)
    \/ Open(Solo)
    \/ Close(Solo)
    \/ TransportError(Solo)

SpecConn == InitEv /\ [][NextConn]_vars

\* The gateway's subscriptions.  A subscription belongs to the connection
\* the subscribe envelope came over; a message published on the topic is
\* sent once to every subscribed connection, and each live transport of the
\* client hands its copy to onmessage.
Subscribed(st) ==
    IF st.thrown = "none"
    THEN [st EXCEPT !.transports[st.ws].subscribed = TRUE]
    ELSE st

\* subscribeRemoteTopic(topic), and the gateway subscribing the connection
SubscribeAtGateway(c) ==
    /\ Did(c, "subscribeRemoteTopic",
           Subscribed(subscribeRemoteTopic(St(c), tClock)))
    /\ UNCHANGED routed

\* the connections of c a message on the topic is sent to
Receivers(c) == {h \in live[c] : transports[c][h].subscribed}

\* onmessage of n transports, one after the other
RECURSIVE HandOver(_, _, _)
HandOver(st, n, f) ==
    IF n = 0 THEN st ELSE HandOver(onMessage(st, f), n - 1, f)

\* the gateway publishes f once on the topic
GatewayPublish(c, f) ==
    /\ Receivers(c) # {}
    /\ Did(c, "onMessage", HandOver(St(c), Cardinality(Receivers(c)), f))
    /\ UNCHANGED routed

Notification == Frame("text", TRUE, tClock, mGettime, AppData(S("c2")))

\* the same envelope arriving as a Blob on a live transport
BlobNotification == Encoded(Notification, "blob")

NextGw ==
    \/ Connect(Solo)
    \/ Disconnect(Solo)
    \/ SubscribeAtGateway(Solo)
    \/ RegisterOn(Solo, {Dot(tClock, mGettime), Dot(tClock, Star)})
    \/ GatewayPublish(Solo, Notification)
    \/ Deliver(Solo, BlobNotification)
    \/ BlobRead(Solo)

SpecGw == InitEv /\ [][NextGw]_vars

\* The requests of one client and their acknowledgements: the gateway
\* acknowledges the envelopes in the order it received them, and the caller
\* keeps the options objects it passed and may write to them.
OwnIds == {Undef, S("z")}                 \* what the caller assigns to options.id

\* the caller assigns options.id on an object it passed to publish/send
SetId(c, ids) ==
    /\ \E k \in 1..Len(objs[c]), id \in ids :
          /\ objs[c][k].id # id
          /\ Did(c, "options", [St(c) EXCEPT !.objs[k].id = id])
    /\ UNCHANGED routed

\* the acknowledgement of an envelope: priv/acks, ack, data = its id
AckFrame(env) == Frame("text", TRUE, tAcks, mAck, AckData(env.id))

\* the gateway acknowledges the next envelope of c on a live connection
Ack(c) ==
    /\ routed[c] < Len(sent[c])
    /\ live[c] # {}
    /\ routed' = [routed EXCEPT ![c] = @ + 1]
    /\ Did(c, "onMessage",
           onMessage(St(c), AckFrame(sent[c][routed[c] + 1])))

NextReq ==
    \/ Connect(Solo)
    \/ Disconnect(Solo)
    \/ Publish(Solo, {Undef}, RandomIds)
    \/ SetId(Solo, OwnIds)
    \/ Ack(Solo)
    \/ WaitForAck(Solo, {DefaultTimeout})
    \/ \E n \in 1..MaxWaits : Timeout(Solo, n)

SpecReq == Init /\ [][NextReq]_vars

\* The waits of one request beside the handlers of the application, some
\* on the very key a wait listens on, with the timers running.
TmoKeys == {Dot(mAck, S("a")), kError}

\* the envelopes the constructor's handlers turn into events
AckA      == Frame("text", TRUE, tAcks, mAck, AckData(S("a")))
ResponseA == Frame("text", TRUE, tPrivC1, mResponse, ResData(S("a")))
Welcome   == Frame("text", TRUE, tMain, mWelcome, WelcomeData)
TmoFrames == {AckA, ResponseA, Welcome}

NextTmo ==
    \/ Connect(Solo)
    \/ Disconnect(Solo)
    \/ Publish(Solo, {Undef}, {S("a")})
    \/ RegisterOn(Solo, TmoKeys)
    \/ WaitForAck(Solo, {DefaultTimeout})
    \/ WaitForReply(Solo, {DefaultTimeout})
    \/ \E n \in 1..MaxWaits : Timeout(Solo, n)
    \/ \E f \in TmoFrames : Deliver(Solo, f)

SpecTmo == InitEv /\ [][NextTmo]_vars

\* An application whose handlers throw: the handlers are registered on the
\* keys of the envelopes the client correlates.
ThrowKeys == {Dot(tPrivC1, mResponse), Dot(tAcks, mAck)}

\* the application registers a handler that throws: client.on(key, handler)
RegisterThrower(c, keys) ==
    /\ \E key \in keys :
          /\ \A j \in 1..Len(listeners[c]) :
                listeners[c][j].fn.kind = "thrower"
                => listeners[c][j].key # key
          /\ LET n == Cardinality({j \in 1..Len(listeners[c]) :
                                     listeners[c][j].fn.kind = "thrower"}) + 1
             IN  /\ n <= MaxHandlers
                 /\ Did(c, "on", [St(c) EXCEPT
                                    !.listeners = On(@, key, ThrowerFn(n))])
    /\ UNCHANGED routed

NextThrow ==
    \/ Connect(Solo)
    \/ Publish(Solo, {Undef}, {S("a")})
    \/ RegisterThrower(Solo, ThrowKeys)
    \/ WaitForAck(Solo, {DefaultTimeout})
    \/ WaitForReply(Solo, {DefaultTimeout})
    \/ \E n \in 1..MaxWaits : Timeout(Solo, n)
    \/ \E f \in {AckA, ResponseA} : Deliver(Solo, f)

SpecThrow == InitEv /\ [][NextThrow]_vars

\* A client that answers a request it has received and waits for the
\* acknowledgement of its reply; it also publishes requests of its own, so
\* that acknowledgements of requests reach it.
RequestA == Frame("text", TRUE, tClock, mGettime, AppData(S("c2")))
AckR     == Frame("text", TRUE, tAcks, mAck, AckData(S("r")))

NextReply ==
    \/ Connect(Solo)
    \/ RegisterOn(Solo, {Dot(tClock, mGettime)})
    \/ Publish(Solo, {Undef}, {S("a")})
    \/ \E k \in 1..MaxHeld : Reply(Solo, k, {S("r")}, {Undef})
    \/ WaitForAck(Solo, {DefaultTimeout})
    \/ \E n \in 1..MaxWaits : Timeout(Solo, n)
    \/ \E f \in {RequestA, AckA, AckR} : Deliver(Solo, f)

SpecReply == InitEv /\ [][NextReply]_vars

\* ------------------------------------------------------------ two clients
\* A requester and a responder on one gateway.  The gateway hands a
\* published envelope to its recipient with the sender's connection identity
\* (data.client.connectionId), the envelope id (data.id) and the payload
\* (data.payload); a message sent to the backend arrives on secure/inbound.
Requester == "A"
Responder == "B"
Peer(c)   == IF c = Requester THEN Responder ELSE Requester
ConnOf(c) == IF c = Requester THEN S("cA") ELSE S("cB")
tInbound  == << <<"secure", "inbound">> >>
Statuses  == {S("ok"), S("error")}

\* the client an envelope of c goes to, or "none"
Recipient(c, env) ==
    IF env.type \in {"subscribe", "unsubscribe"} THEN "none"
    ELSE IF env.type = "message" THEN Peer(c)
    ELSE IF StartsWithPriv(env.topic)
         THEN IF env.topic = Priv(ConnOf(Peer(c))) THEN Peer(c) ELSE "none"
    ELSE Peer(c)

GatewayFrame(c, env, enc) ==
    Frame(enc, TRUE, IF env.type = "message" THEN tInbound ELSE env.topic,
          env.messageType,
          Data(Undef, env.id, ConnOf(c), env.payload, Undef))

\* the gateway routes the next envelope of c and its recipient's transport
\* hands the frame to onmessage
Route(c, enc) ==
    /\ routed[c] < Len(sent[c])
    /\ routed' = [routed EXCEPT ![c] = @ + 1]
    /\ LET env == sent[c][routed[c] + 1]
           q   == Recipient(c, env)
       IN  IF q = "none" \/ live[Peer(c)] = {}
           THEN UNCHANGED <<ws, made, live, listeners, waits, objs,
                            factories, sent, held, transports, decoding,
                            fired, watch, cur>>
           ELSE Did(q, "onMessage",
                    onMessage(St(q), GatewayFrame(c, env, enc)))

\* the responder's application handles clock.gettime
RegisterGettime(c) ==
    /\ \A j \in 1..Len(listeners[c]) : listeners[c][j].fn.kind # "app"
    /\ \E topic \in {tClock, tInbound} :
          Did(c, "on", [St(c) EXCEPT
                          !.listeners = On(@, Dot(topic, mGettime), AppFn(1))])
    /\ UNCHANGED routed

NextRT ==
    \/ Connect(Requester)
    \/ Connect(Responder)
    \/ Publish(Requester, {Undef}, RandomIds)
    \/ Send(Requester, {Undef}, RandomIds)
    \/ WaitForReply(Requester, {DefaultTimeout})
    \/ \E n \in 1..MaxWaits : Timeout(Requester, n)
    \/ RegisterGettime(Responder)
    \/ \E k \in 1..MaxHeld :
          Reply(Responder, k, {S("r")}, Statuses \cup {Undef})
    \/ \E enc \in {"text", "binary"} : Route(Requester, enc)
    \/ \E enc \in {"text", "binary"} : Route(Responder, enc)

SpecRT == Init /\ [][NextRT]_vars

\* --------------------------------------------------------- correlation
\* what the claims on waits speak about
WaitsOf(c)      == 1..Len(waits[c])
Listening(c, n) == \E j \in 1..Len(listeners[c]) : listeners[c][j].fn = WaitFn(n)
AckKey(x)       == Dot(mAck, x)
ReplyKey(x)     == Dot(mResponse, x)
RequestIds      == (CallerIds \cup RandomIds) \ {Undef}

\* an acknowledgement envelope for request id x
IsAckFor(f, x) ==
    /\ f.ok /\ f.topic = tAcks /\ f.messageType = mAck
    /\ f.data.has /\ f.data.data = x

\* a response envelope on a priv/ topic for request id x
IsResponseFor(f, x) ==
    /\ f.ok /\ f.topic # Undef /\ StartsWithPriv(f.topic)
    /\ f.messageType = mResponse
    /\ f.data.has /\ f.data.payload.kind = "obj" /\ f.data.payload.id = x

\* C1 (as claimed): a waitForAck on request id x resolves exactly when an
\* ack envelope (priv/acks, ack) whose data.data is x is delivered while it
\* is pending, and otherwise it ends with the error "timeout".
C1_AckIffEnvelope ==
    [][\A n \in WaitsOf(Solo) : \A x \in RequestIds :
         (waits[Solo][n].key = AckKey(x) /\ waits[Solo][n].state = "pending")
         => /\ (waits'[Solo][n].state = "resolved")
                 <=> (\E f \in CorrFrames :
                         IsAckFor(f, x) /\ Deliver(Solo, f))
            /\ (waits'[Solo][n].state = "rejected")
                 => waits'[Solo][n].err = "timeout"]_vars

\* C2 (as claimed): a waitForReply on request id x is resolved only by a
\* response envelope on a priv/ topic whose payload id is x, and with that
\* ResponseMessage as its value.
C2_ReplyOnlyByResponse ==
    \A n \in WaitsOf(Solo) : \A x \in RequestIds :
        (waits[Solo][n].key = ReplyKey(x) /\ waits[Solo][n].state = "resolved")
        => /\ IsResponseFor(waits[Solo][n].by, x)
           /\ waits[Solo][n].args = ArgsRes(waits[Solo][n].by.data.payload)

\* C3: a waitForReply is resolved at most once: its listener runs once, is
\* then no longer registered, and the resolved wait never changes again,
\* whatever response envelopes follow.
C3_ResolvedOnce ==
    /\ [](\A n \in WaitsOf(Solo) :
            waits[Solo][n].key[1] = mResponse[1]
            => /\ waits[Solo][n].calls <= 1
               /\ waits[Solo][n].state = "resolved"
                    => (waits[Solo][n].calls = 1 /\ ~Listening(Solo, n)))
    /\ [][\A n \in WaitsOf(Solo) :
            (waits[Solo][n].key[1] = mResponse[1]
             /\ waits[Solo][n].state = "resolved")
            => waits'[Solo][n] = waits[Solo][n]]_vars

\* two response envelopes for the id of a resolved waitForReply were seen:
\* the wait is resolved and a second wait on the same key was resolved too
C3_Witness ==
    \E n, m \in WaitsOf(Solo) :
        /\ n < m
        /\ waits[Solo][n].key = ReplyKey(S("a"))
        /\ waits[Solo][m].key = ReplyKey(S("a"))
        /\ waits[Solo][n].state = "resolved"
        /\ waits[Solo][m].state = "resolved"
        /\ IsResponseFor(waits[Solo][n].by, S("a"))
        /\ IsResponseFor(waits[Solo][m].by, S("a"))
        /\ waits[Solo][n].calls = 1

\* the request id an ack or response envelope refers to
IsCorrelationEnvelope(f) ==
    \E x \in WireIds : IsAckFor(f, x) \/ IsResponseFor(f, x)
RefId(f) == IF f.messageType = mAck THEN f.data.data ELSE f.data.payload.id

\* C4 (as claimed): an ack or response envelope referring to id x never
\* settles a wait registered for another id y.
C4_Independent ==
    \A n \in WaitsOf(Solo) : \A y \in RequestIds :
        (/\ waits[Solo][n].key \in {AckKey(y), ReplyKey(y)}
         /\ waits[Solo][n].state = "resolved"
         /\ IsCorrelationEnvelope(waits[Solo][n].by))
        => RefId(waits[Solo][n].by) = y

C7_OneOutcome ==
    /\ [](\A n \in WaitsOf(Solo) :
            LET w == waits[Solo][n]
            IN  /\ w.state \in {"pending", "resolved", "rejected"}
                /\ w.state = "pending"
                     => (w.timer = (w.timeout > 0) /\ w.calls = 0
                         /\ w.err = "none" /\ Listening(Solo, n))
                /\ w.state = "resolved"
                     => /\ ~w.timer /\ w.err = "none" /\ w.calls >= 1
                        /\ w.args \in {ArgsNone, ArgsRes(w.by.data.payload),
                                       ArgsMsg(Msg(w.by.topic, w.by.messageType,
                                                   w.by.data, w.by.enc # "text"))}
                /\ w.state = "rejected"
                     => (~w.timer /\ w.err = "timeout" /\ w.calls = 0
                         /\ w.args = ArgsNone))
    /\ [][\A n \in WaitsOf(Solo) :
            waits[Solo][n].state # "pending"
            => /\ waits'[Solo][n].state = waits[Solo][n].state
               /\ waits'[Solo][n].args = waits[Solo][n].args
               /\ waits'[Solo][n].err = waits[Solo][n].err]_vars

\* both outcomes occur: one wait resolved by its event, one timed out
C7_Witness ==
    \E n, m \in WaitsOf(Solo) :
        /\ waits[Solo][n].state = "resolved" /\ waits[Solo][n].timeout > 0
        /\ waits[Solo][m].state = "rejected"

\* C8: a wait is one-shot: once resolved or timed out its listener is not
\* registered any more, and no later step (an envelope for the same id
\* included) touches the settled wait or runs its listener again.
C8_OneShot ==
    /\ [](\A n \in WaitsOf(Solo) :
            waits[Solo][n].state # "pending"
            => (~Listening(Solo, n) /\ waits[Solo][n].calls <= 1))
    /\ [][\A n \in WaitsOf(Solo) :
            waits[Solo][n].state # "pending"
            => waits'[Solo][n] = waits[Solo][n]]_vars

\* a wait timed out and an ack for its id arrived afterwards (it resolved a
\* second wait on the same key)
C8_Witness ==
    \E n, m \in WaitsOf(Solo) :
        /\ n < m
        /\ waits[Solo][n].key = waits[Solo][m].key
        /\ waits[Solo][n].state = "rejected"
        /\ waits[Solo][m].state = "resolved"
        /\ IsAckFor(waits[Solo][m].by, S("a"))

\* C5: the round trip.  (1) The gateway hands a request of A to B's handler
\* with A's connection identity and the request id.  (2) B's reply(data,
\* status) transmits to A's private topic a response with the id of the
\* message answered and the data and status passed.  (3) When the gateway
\* delivers that response while A's waitForReply on the request id is
\* pending, the wait resolves with this ResponseMessage.  So a resolved
\* waitForReply of A holds the id of its own request.
IsReplyEnvelope(env, to) ==
    /\ env.type = "publish" /\ env.topic = Priv(ConnOf(to))
    /\ env.messageType = mResponse /\ env.payload.kind = "obj"

C5_RoundTrip ==
    /\ [](\A k \in 1..Len(held[Responder]) :
            /\ held[Responder][k].data.conn = ConnOf(Requester)
            /\ \E j \in 1..routed[Requester] :
                  sent[Requester][j].id = held[Responder][k].data.id)
    /\ [][\A k \in 1..MaxHeld : \A status \in Statuses :
            ReplyWith(Responder, k, S("r"), S("v"), status)
            => \/ (ws[Responder] = 0 /\ cur'.err = NotEstablished)
               \/ sent'[Responder] =
                    Append(sent[Responder],
                           Envelope("publish", Priv(ConnOf(Requester)),
                                    mResponse,
                                    Response(S("v"), status,
                                        held[Responder][k].data.id),
                                    S("r")))]_vars
    /\ [][\A enc \in {"text", "binary"} :
            (/\ Route(Responder, enc)
             /\ IsReplyEnvelope(sent[Responder][routed[Responder] + 1],
                                Requester)
             /\ live[Requester] # {})
            => LET res == sent[Responder][routed[Responder] + 1].payload
               IN  \A n \in WaitsOf(Requester) :
                      (/\ waits[Requester][n].key = ReplyKey(res.id)
                       /\ waits[Requester][n].state = "pending")
                      => /\ waits'[Requester][n].state = "resolved"
                         /\ waits'[Requester][n].args = ArgsRes(res)]_vars
    /\ [](\A n \in WaitsOf(Requester) :
            waits[Requester][n].state = "resolved"
            => /\ waits[Requester][n].key = ReplyKey(waits[Requester][n].args.res.id)
               /\ waits[Requester][n].args.res.data = S("v")
               /\ waits[Requester][n].args.res.status \in Statuses)

\* A's waitForReply resolved with the status B passed, before its deadline
C5_Witness ==
    \E n \in WaitsOf(Requester) :
        /\ waits[Requester][n].state = "resolved"
        /\ waits[Requester][n].args.res.status = S("error")
        /\ waits[Requester][n].key = ReplyKey(waits[Requester][n].args.res.id)
        /\ routed[Responder] >= 1

\* C9: publish, send, subscribeRemoteTopic and unsubscribeRemoteTopic raise
\* "WebSocket connection is not established" exactly when ws is null, which
\* is so before the first connect() and from a disconnect() to the next
\* connect(); the failing call changes nothing of the client, and with a
\* handle the call transmits one envelope.
ApiCall ==
    \/ Publish(Solo, {Undef}, {S("a")})
    \/ Send(Solo, {Undef}, {S("a")})
    \/ SubscribeRemoteTopic(Solo)
    \/ UnsubscribeRemoteTopic(Solo)

C9_NotEstablished ==
    /\ [](made[Solo] = 0 => ws[Solo] = 0)
    /\ [][/\ ApiCall => ((cur'.err = NotEstablished) <=> (ws[Solo] = 0))
          /\ (ApiCall /\ ws[Solo] = 0)
               => /\ cur'.op \in {"publish", "send", "subscribeRemoteTopic",
                                  "unsubscribeRemoteTopic"}
                  /\ UNCHANGED <<ws, made, live, listeners, waits, objs,
                                 factories, sent, held>>
          /\ (ApiCall /\ ws[Solo] # 0)
               => /\ cur' = Returned
                  /\ Len(sent'[Solo]) = Len(sent[Solo]) + 1
          /\ Connect(Solo) => ws'[Solo] # 0
          /\ Disconnect(Solo) => ws'[Solo] = 0
          /\ ~(Connect(Solo) \/ Disconnect(Solo)) => ws'[Solo] = ws[Solo]
       ]_vars

\* a call failed after a disconnect(), with a wait pending and a handler
\* of the application registered
C9_Witness ==
    /\ cur = [op |-> "publish", err |-> NotEstablished]
    /\ made[Solo] >= 1 /\ ws[Solo] = 0
    /\ \E n \in WaitsOf(Solo) : waits[Solo][n].state = "pending"
    /\ Len(listeners[Solo]) > Len(InitListeners)

\* C10: a reply on a message without connection identity (absent or empty)
\* raises an error at once and transmits nothing.
HasConnectionId(m) == m.data.has /\ Truthy(m.data.conn)

C10_ReplyNoAddress ==
    [][\A k \in 1..MaxHeld :
         (Reply(Solo, k, {S("b")}, {S("ok")})
          /\ ~HasConnectionId(held[Solo][k]))
         => /\ cur'.op = "reply"
            /\ cur'.err \in {NoConnectionId, "TypeError"}
            /\ UNCHANGED sent]_vars

\* such a reply was attempted while a handle was held
C10_Witness ==
    /\ cur = [op |-> "reply", err |-> NoConnectionId]
    /\ ws[Solo] # 0
    /\ \E k \in 1..Len(held[Solo]) : ~HasConnectionId(held[Solo][k])

\* C11: disconnect() is idempotent.  With a handle held it closes that
\* handle (which was live) and clears the reference, and nothing else of
\* the client changes; with no handle held, as after a first disconnect(),
\* it closes nothing, transmits nothing and changes nothing.  It returns.
C11_DisconnectIdempotent ==
    /\ [](ws[Solo] # 0 => ws[Solo] \in live[Solo])
    /\ [][Disconnect(Solo) =>
            /\ cur' = Returned /\ fired' = Quiet
            /\ ws'[Solo] = 0
            /\ UNCHANGED <<made, listeners, waits, objs, factories, sent,
                           held, transports, decoding>>
            /\ IF ws[Solo] # 0
               THEN live'[Solo] = live[Solo] \ {ws[Solo]}
               ELSE UNCHANGED live]_vars

\* disconnect() was called with no handle held, after a connect() and a
\* disconnect(), while a wait was pending
C11_Witness ==
    /\ made[Solo] >= 1 /\ ws[Solo] = 0 /\ live[Solo] = {}
    /\ \E n \in WaitsOf(Solo) : waits[Solo][n].state = "pending"
    /\ cur = Returned /\ fired = Quiet

\* C12 (as claimed): at most one transport made by the client is live.
C12_OneLiveHandle ==
    Cardinality(live[Solo]) <= 1

\* a frame whose event onMessage emits: decodable, with a messageType
Emits(f) ==
    f.enc \in {"text", "binary", "blob"} /\ f.ok /\ Truthy(f.messageType)

\* the handlers that ran in the last call or callback
Ran == {fired.ran[i] : i \in 1..Len(fired.ran)}

\* C13 (as claimed): events are emitted in the order of delivery: when the
\* event of a frame is emitted, no frame delivered before it still has its
\* event to come.
C13_InOrder ==
    [][\A f \in EvFrames :
         (/\ Deliver(Solo, f) /\ fired'.emits # << >>
          /\ fired'.emits[1].key = Dot(f.topic, f.messageType))
         => \A i \in 1..Len(decoding[Solo]) : ~Emits(decoding[Solo][i])]_vars

\* C14 (as claimed): no transport callback of the client (message, error,
\* close) ends with an exception thrown or a promise rejected.
C14_NoEscape ==
    cur.op \notin {"onMessage", "onerror", "onclose"}

\* a frame onMessage cannot decode
Undecodable(f) == f.enc \notin {"text", "binary", "blob"} \/ ~f.ok

\* the handlers registered on key, in registration order
HandlersOn(key) ==
    LET on == SelectSeq(listeners[Solo], LAMBDA l : l.key = key)
    IN  [j \in 1..Len(on) |-> on[j].fn]

\* the last callback emitted 'error' once and nothing else, and each
\* handler of 'error' ran once
ErrorOnly ==
    /\ Len(fired.emits) = 1
    /\ fired.emits[1].key = kError
    /\ fired.emits[1].args.kind = "error"
    /\ fired.ran = HandlersOn(kError)

\* C15: a frame that cannot be decoded (not JSON, or neither text nor
\* ArrayBuffer nor Blob) makes the client emit 'error' exactly once and no
\* other event; the handle, the transports, the waits, the listeners and
\* what was transmitted stay as they were, so later frames are dispatched
\* as before.
C15_UndecodableFrame ==
    [][((\E f \in {g \in EvFrames : Undecodable(g) /\ g.enc # "blob"} :
            Deliver(Solo, f))
        \/ (BlobRead(Solo) /\ Undecodable(Head(decoding[Solo]))))
       => /\ ErrorOnly'
          /\ UNCHANGED <<ws, made, live, listeners, waits, sent, held,
                         transports>>]_vars

\* an undecodable frame was reported to a handler of 'error' while a wait
\* was pending and a Blob was being read
C15_Witness ==
    /\ ErrorOnly /\ Len(fired.ran) = 1
    /\ fired.emits[1].args.err = "SyntaxError"
    /\ cur = Returned
    /\ \E n \in WaitsOf(Solo) : waits[Solo][n].state = "pending"
    /\ decoding[Solo] # << >>

\* C16 (as claimed): a handler on 'clock.*' runs for every frame with topic
\* clock and for no frame with another topic; a handler on 'clock.gettime'
\* runs only for frames with topic clock and messageType gettime.
C16_WildcardRouting ==
    [][\A f \in EvFrames :
         (Deliver(Solo, f) /\ Emits(f) /\ f.enc # "blob")
         => \A j \in 1..Len(listeners[Solo]) :
               LET l == listeners[Solo][j]
               IN  /\ (l.fn.kind = "app" /\ l.key = Dot(tClock, Star))
                        => (l.fn \in Ran' <=> f.topic = tClock)
                   /\ (l.fn.kind = "app" /\ l.key = Dot(tClock, mGettime))
                        => (l.fn \in Ran'
                              => (f.topic = tClock
                                  /\ f.messageType = mGettime))]_vars

\* C17 (as claimed): 'session.started' is emitted only in the dispatch of a
\* frame with topic main and messageType welcome, with that frame's
\* data.connection as its argument.
C17_SessionStartedOnlyByWelcome ==
    [][\A i \in 1..Len(fired'.emits) :
         fired'.emits[i].key = kSession
         => \E f \in EvFrames :
               /\ Deliver(Solo, f)
               /\ f.topic = tMain /\ f.messageType = mWelcome
               /\ fired'.emits[i].args = ArgsInfo(f.data.connection)]_vars

C19_ResolvesWhenEstablished ==
    /\ [][\A h \in 1..Len(transports'[Solo]) :
            (/\ transports'[Solo][h].promise = "resolved"
             /\ (h > Len(transports[Solo])
                 \/ transports[Solo][h].promise # "resolved"))
            => transports'[Solo][h].open]_vars
    /\ [][(TransportError(Solo)
           /\ \A h \in live[Solo] : ~transports[Solo][h].open)
          => \E h \in live[Solo] :
                transports'[Solo][h].promise = "rejected"]_vars

\* C20: each close callback emits 'close' once, with the transport's close
\* event, to the handlers and waits on 'close' (a pending waitFor('close')
\* resolves with the event); each error callback emits 'error' once to the
\* handlers of 'error'.  Each is emitted inside its callback, so an error
\* followed by a close is seen as 'error' then 'close'.
C20_CloseAndErrorEvents ==
    /\ [][\A ev \in CloseEvents :
            CloseWith(Solo, ev)
            => /\ fired'.emits = <<[key |-> kClose, args |-> ArgsClose(ev)]>>
               /\ fired'.ran = HandlersOn(kClose)
               /\ \A n \in WaitsOf(Solo) :
                     (waits[Solo][n].key = kClose
                      /\ waits[Solo][n].state = "pending")
                     => /\ waits'[Solo][n].state = "resolved"
                        /\ waits'[Solo][n].args = ArgsClose(ev)]_vars
    /\ [][TransportError(Solo)
          => /\ fired'.emits =
                  <<[key |-> kError,
                     args |-> ArgsError("WebSocket error event")]>>
             /\ fired'.ran = HandlersOn(kError)]_vars

\* a close callback has just resolved a waitFor('close') with its event and
\* run the handler of 'close', a handler of 'error' being registered too
C20_Witness ==
    /\ fired.emits = <<[key |-> kClose, args |-> ArgsClose(S("1006"))]>>
    /\ Len(fired.ran) = 2
    /\ \E n \in WaitsOf(Solo) :
          /\ waits[Solo][n].key = kClose
          /\ waits[Solo][n].state = "resolved"
          /\ waits[Solo][n].args = ArgsClose(S("1006"))
    /\ \E j \in 1..Len(listeners[Solo]) : listeners[Solo][j].key = kError

\* C22 (as documented): waitForAck and waitForReply fail with an error when
\* the client holds no connection, and a wait that is pending when the
\* connection is closed by disconnect() fails then.
C22_WaitFailsWhenNotEstablished ==
    /\ [][((WaitForAck(Solo, {DefaultTimeout})
            \/ WaitForReply(Solo, {DefaultTimeout}))
           /\ ws[Solo] = 0)
          => cur'.err # "none"]_vars
    /\ [][Disconnect(Solo)
          => \A n \in WaitsOf(Solo) :
                waits[Solo][n].state = "pending"
                => waits'[Solo][n].state = "rejected"]_vars

\* a request with id x has settled: a wait on ack.x or response.x was
\* resolved or timed out
Settled(x) ==
    \E n \in WaitsOf(Solo) :
        /\ waits[Solo][n].key \in {AckKey(x), ReplyKey(x)}
        /\ waits[Solo][n].state # "pending"

\* C26 (as claimed): a request is transmitted with an id that no earlier
\* request of the client carries, unless that earlier request has settled;
\* for the ids the client generates and for the ids the caller supplies.
C26_UniqueInFlight ==
    [][Len(sent'[Solo]) > Len(sent[Solo])
       => \A i \in 1..Len(sent[Solo]) :
             sent[Solo][i].id = sent'[Solo][Len(sent'[Solo])].id
             => Settled(sent[Solo][i].id)]_vars

\* the registration number of the handlers of the application that ran in
\* the last call or callback, in the order they ran
AppRan ==
    LET app == SelectSeq(fired.ran, LAMBDA fn : fn.kind = "app")
    IN  [i \in 1..Len(app) |-> app[i].n]

\* C28 (as claimed): the handlers of the application that match the event
\* of a frame, on its exact key or on a wildcard key, run in the order in
\* which they were registered.
C28_RegistrationOrder ==
    [][\A f \in {g \in EvFrames : Emits(g) /\ g.enc # "blob"} :
         Deliver(Solo, f)
         => \A i, j \in 1..Len(AppRan') : i < j => AppRan'[i] < AppRan'[j]]_vars

\* the key of a registered listener names no wildcard
Concrete(key) == \A i \in 1..Len(key) : key[i] # StarSeg

\* C29 (as claimed): an emitted key is matched literally: a handler of the
\* application or a wait registered on a key without wildcard runs only in
\* an emit of exactly its key, so a frame never reaches the handlers of a
\* different concrete topic, messageType or id.
C29_EmittedKeyLiteral ==
    [][\A j \in 1..Len(listeners[Solo]) :
         LET l == listeners[Solo][j]
         IN  (l.fn.kind \in {"app", "wait"} /\ Concrete(l.key)
              /\ l.fn \in Ran')
             => \E i \in 1..Len(fired'.emits) :
                   fired'.emits[i].key = l.key]_vars

\* a frame that is valid JSON and has no topic or no messageType
NoRoute(f) ==
    /\ f.enc \in {"text", "binary", "blob"} /\ f.ok
    /\ (f.topic = Undef \/ f.messageType = Undef)

\* C30 (as claimed): a frame that is valid JSON and lacks topic or
\* messageType is reported as a decode failure: 'error' is emitted once
\* and no other event.
C30_MissingRoutingField ==
    [][\A f \in {g \in EvFrames : NoRoute(g) /\ g.enc # "blob"} :
         Deliver(Solo, f)
         => /\ Len(fired'.emits) = 1
            /\ fired'.emits[1].key = kError]_vars

\* the frames delivered in each of the three encodings: one envelope as
\* text, as ArrayBuffer and as Blob
TwinFrames == {g \in EvFrames : g.topic = tClock /\ g.messageType = mGettime}

\* the event emitted for frame f: its key and the IncomingMessage
EventOf(f) ==
    [key  |-> Dot(f.topic, f.messageType),
     args |-> ArgsMsg(Msg(f.topic, f.messageType, f.data, f.enc # "text"))]

\* the last callback dispatched f as its textual form is dispatched in the
\* state before it: the same handlers in the same order
AsText(f) ==
    LET text == onMessage([St(Solo) EXCEPT !.decoding = << >>],
                          Encoded(f, "text"))
    IN  /\ fired'.emits # << >>
        /\ fired'.emits[1] = EventOf(f)
        /\ fired'.emits[1].key = text.fired.emits[1].key
        /\ fired'.emits[1].args.msg =
              [text.fired.emits[1].args.msg EXCEPT
                  !.compression = (f.enc # "text")]
        /\ fired'.ran = text.fired.ran

\* C23: a frame that arrives as ArrayBuffer or as Blob is dispatched under
\* the key of the equivalent textual frame, to the same handlers, with the
\* same topic, messageType and data; the IncomingMessage differs only in
\* compression, true for ArrayBuffer and Blob and false for text.
C23_SameMessageAnyEncoding ==
    /\ [][\A f \in {g \in TwinFrames : g.enc # "blob"} :
            Deliver(Solo, f) => AsText(f)]_vars
    /\ [][(BlobRead(Solo) /\ Emits(Head(decoding[Solo])))
          => AsText(Head(decoding[Solo]))]_vars

\* a frame that arrived as ArrayBuffer or Blob has been dispatched to a
\* handler of the application, which kept the message, compression true
C23_Witness ==
    /\ fired.emits # << >>
    /\ fired.emits[1] =
          EventOf(Frame("blob", TRUE, tClock, mGettime, AppData(S("c2"))))
    /\ \E i \in 1..Len(fired.ran) : fired.ran[i].kind = "app"
    /\ decoding[Solo] = << >>
    /\ \E k \in 1..Len(held[Solo]) : held[Solo][k].compression

\* C24: the reply function of a message with connection identity C and id
\* I, called with (data, status) on a connected client, transmits exactly
\* one envelope: a publish to priv/C of messageType response with payload
\* {data, status, id: I}, the status being "ok" when none is passed; it
\* returns a WaitFor factory, built on the options of that envelope.
C24_ReplyEnvelope ==
    [][\A k \in 1..MaxHeld : \A status \in Statuses \cup {Undef} :
         (/\ ReplyWith(Responder, k, S("r"), S("v"), status)
          /\ ws[Responder] # 0
          /\ HasConnectionId(held[Responder][k]))
         => LET message == held[Responder][k]
                o == Len(objs[Responder]) + 1
            IN  /\ sent'[Responder] =
                     Append(sent[Responder],
                            Envelope("publish", Priv(message.data.conn),
                                     mResponse,
                                     Response(S("v"),
                                              IF status = Undef THEN S("ok")
                                              ELSE status,
                                              message.data.id),
                                     S("r")))
                /\ cur' = Returned
                /\ factories'[Responder] = factories[Responder] \cup {o}
                /\ Len(objs'[Responder]) = o
                /\ objs'[Responder][o].id = S("r")]_vars

\* a reply was transmitted to the requester's private topic with status
\* "ok" and the id of the request, and its factory exists
C24_Witness ==
    \E j \in 1..Len(sent[Responder]) :
        /\ sent[Responder][j].topic = Priv(ConnOf(Requester))
        /\ sent[Responder][j].messageType = mResponse
        /\ sent[Responder][j].payload.status = S("ok")
        /\ \E i \in 1..Len(sent[Requester]) :
              sent[Requester][i].id = sent[Responder][j].payload.id
        /\ \E o \in factories[Responder] :
              objs[Responder][o].id = sent[Responder][j].id

\* the gateway has acknowledged every envelope transmitted with id x, and
\* there is one
Acked(x) ==
    /\ \E j \in 1..routed[Solo] : Show(sent[Solo][j].id) = Show(x)
    /\ \A j \in 1..Len(sent[Solo]) :
          Show(sent[Solo][j].id) = Show(x) => j <= routed[Solo]

\* C25 (as claimed): a request is known to the correlation tracker from its
\* transmission: a waitForAck on a request whose acknowledgement has
\* already been delivered is not left waiting for it.
C25_RegisteredAtTransmit ==
    \A n \in WaitsOf(Solo) : \A x \in RandomIds :
        (waits[Solo][n].key = AckKey(x) /\ Acked(x))
        => waits[Solo][n].state # "pending"

\* C27 (as claimed): what a WaitFor factory waits on is an id that the
\* client transmitted with the factory's options, whatever the caller did
\* since the call that returned the factory.
C27_FactoryBoundToSentId ==
    \A k \in factories[Solo] :
        \E j \in 1..Len(sent[Solo]) :
            Show(sent[Solo][j].id) = Show(objs[Solo][k].id)

\* how many times handler fn ran in the last call or callback
Runs(fn) == Cardinality({i \in 1..Len(fired.ran) : fired.ran[i] = fn})

\* C21 (as claimed): a frame T, M that the gateway delivers once to a
\* connected client runs every handler registered on "T.M" exactly once,
\* whatever connect() and disconnect() calls came before.
C21_ExactlyOnce ==
    [][(GatewayPublish(Solo, Notification) /\ ws[Solo] # 0)
       => \A j \in 1..Len(listeners[Solo]) :
             listeners[Solo][j].key = Dot(tClock, mGettime)
             => Runs(listeners[Solo][j].fn)' = 1]_vars

\* C31: the timeout of wait n removes the listener of wait n and nothing
\* else: the other listeners (waits on the same or another key, handlers
\* of the application, the constructor's) stay in their order, every other
\* wait is as it was, the handle and the transports are untouched, nothing
\* is transmitted and nothing is emitted.
C31_TimeoutFrame ==
    [][\A n \in 1..MaxWaits :
         Timeout(Solo, n)
         => /\ listeners'[Solo] =
                 SelectSeq(listeners[Solo], LAMBDA l : l.fn # WaitFn(n))
            /\ \A m \in WaitsOf(Solo) :
                  m # n => waits'[Solo][m] = waits[Solo][m]
            /\ Len(waits'[Solo]) = Len(waits[Solo])
            /\ waits'[Solo][n].state = "rejected"
            /\ fired' = Quiet /\ cur' = Returned
            /\ UNCHANGED <<ws, made, live, transports, sent, objs,
                           factories, held, decoding>>]_vars

\* a wait timed out while another wait on the same key is still pending
\* and listening, beside a handler of the application on that key
C31_Witness ==
    \E n, m \in WaitsOf(Solo) :
        /\ n # m
        /\ waits[Solo][n].state = "rejected"
        /\ waits[Solo][m].state = "pending"
        /\ waits[Solo][m].key = waits[Solo][n].key
        /\ Listening(Solo, m)
        /\ \E j \in 1..Len(listeners[Solo]) :
              /\ listeners[Solo][j].fn.kind = "app"
              /\ listeners[Solo][j].key = waits[Solo][n].key
        /\ ws[Solo] # 0

\* the session of the first connection has started: the handle of the only
\* connect() is held and a wait for 'session.started' was resolved
SessionStarted ==
    /\ made[Solo] = 1 /\ ws[Solo] = 1
    /\ \E n \in WaitsOf(Solo) :
          waits[Solo][n].key = kSession /\ waits[Solo][n].state = "resolved"

\* C32 (as claimed): 'session.started' is emitted once per session, on the
\* first welcome envelope: once the session has started no later step
\* emits it again.
C32_SessionStartedOnce ==
    [][SessionStarted
       => \A i \in 1..Len(fired'.emits) :
             fired'.emits[i].key # kSession]_vars

\* a step of the connection: close or error reported by a transport,
\* disconnect(), connect()
ConnectionStep ==
    \/ Close(Solo)
    \/ TransportError(Solo)
    \/ Disconnect(Solo)
    \/ Connect(Solo)

EmitsOf(key) ==
    Cardinality({i \in 1..Len(fired.emits) : fired.emits[i].key = key})

\* the listeners the client registered for itself
Internal ==
    SelectSeq(listeners[Solo],
              LAMBDA l : l.fn.kind \in {"onAck", "onResponse", "onWelcome"})

\* C34: the three internal subscriptions are those of the constructor at
\* all times, through every connect() and disconnect(); so one ack
\* envelope emits ack.<id> once, one response envelope on a priv/ topic
\* emits response.<id> once, and one welcome envelope emits
\* session.started once, each handler running once.
C34_InternalSubscriptionsOnce ==
    /\ [](Internal = InitListeners)
    /\ [][Deliver(Solo, AckA)
          => (EmitsOf(AckKey(S("a")))' = 1
              /\ Runs(InternalFn("onAck"))' = 1)]_vars
    /\ [][Deliver(Solo, ResponseA)
          => (EmitsOf(ReplyKey(S("a")))' = 1
              /\ Runs(InternalFn("onResponse"))' = 1)]_vars
    /\ [][Deliver(Solo, Welcome)
          => (EmitsOf(kSession)' = 1
              /\ Runs(InternalFn("onWelcome"))' = 1)]_vars

\* after connect(), disconnect() and connect(), an ack envelope has just
\* been turned into one ack.<id> event, which resolved a wait
C34_Witness ==
    /\ made[Solo] = 2 /\ live[Solo] = {2}
    /\ EmitsOf(AckKey(S("a"))) = 1
    /\ Runs(InternalFn("onAck")) = 1
    /\ \E n \in WaitsOf(Solo) :
          waits[Solo][n].state = "resolved" /\ waits[Solo][n].by = AckA

\* C35 (as claimed): publish leaves the options object it is passed as it
\* was: an object passed without id has no id after the call, no object
\* passed earlier changes, and an envelope transmitted with an object
\* passed before carries an id no earlier envelope carries.
C35_OptionsUnchanged ==
    [][(Publish(Solo, {Undef}, RandomIds) /\ cur'.err = "none")
       => /\ \A k \in 1..Len(objs[Solo]) : objs'[Solo][k] = objs[Solo][k]
          /\ Len(objs'[Solo]) > Len(objs[Solo])
               => objs'[Solo][Len(objs'[Solo])].id = Undef
          /\ Len(objs'[Solo]) = Len(objs[Solo])
               => \A j \in 1..Len(sent[Solo]) :
                     sent[Solo][j].id # sent'[Solo][Len(sent'[Solo])].id]_vars

\* C36 (as claimed): while the client holds no connection, from a
\* disconnect() to the next connect(), no step emits an event: a frame
\* whose Blob was still being read at disconnect() is not dispatched.
C36_NoDispatchAfterDisconnect ==
    [][ws[Solo] = 0 => fired'.emits = << >>]_vars

\* C37 (as claimed): an exception thrown by a handler of the application
\* in the dispatch of a frame does not keep the client's own handlers from
\* running: a pending wait that the frame matches is resolved by it.
C37_HandlerExceptionContained ==
    /\ [][Deliver(Solo, AckA)
          => \A n \in WaitsOf(Solo) :
                (waits[Solo][n].key = AckKey(S("a"))
                 /\ waits[Solo][n].state = "pending")
                => waits'[Solo][n].state = "resolved"]_vars
    /\ [][Deliver(Solo, ResponseA)
          => \A n \in WaitsOf(Solo) :
                (waits[Solo][n].key = ReplyKey(S("a"))
                 /\ waits[Solo][n].state = "pending")
                => waits'[Solo][n].state = "resolved"]_vars

\* C38: the envelope a reply transmits carries an id of its own, different
\* from the id of the message answered, which travels in the payload; the
\* factory the reply returns is bound to the envelope's id, and a wait for
\* the ack of the reply is resolved by the ack of the reply envelope and
\* left pending by an ack of the request answered.
ReplyEnvelopes ==
    {j \in 1..Len(sent[Solo]) : sent[Solo][j].messageType = mResponse}

C38_ReplyOwnId ==
    /\ [][\A k \in 1..MaxHeld :
            (ReplyWith(Solo, k, S("r"), S("v"), Undef) /\ cur' = Returned)
            => LET e == sent'[Solo][Len(sent'[Solo])]
                   o == Len(objs'[Solo])
               IN  /\ Len(sent'[Solo]) = Len(sent[Solo]) + 1
                   /\ e.payload.id = held[Solo][k].data.id
                   /\ e.id # held[Solo][k].data.id
                   /\ o \in factories'[Solo] \ factories[Solo]
                   /\ objs'[Solo][o].id = e.id]_vars
    /\ [][\A j \in ReplyEnvelopes : \A n \in WaitsOf(Solo) :
            (/\ waits[Solo][n].key = AckKey(sent[Solo][j].id)
             /\ waits[Solo][n].state = "pending")
            => /\ Deliver(Solo, Frame("text", TRUE, tAcks, mAck,
                                      AckData(sent[Solo][j].payload.id)))
                  => waits'[Solo][n].state = "pending"
               /\ Deliver(Solo, Frame("text", TRUE, tAcks, mAck,
                                      AckData(sent[Solo][j].id)))
                  => waits'[Solo][n].state = "resolved"]_vars

\* reached: the ack of the request answered was delivered and consumed by
\* the wait on the request, and the wait on the reply's factory was
\* resolved by the ack of the reply envelope
C38_Witness ==
    \E j \in ReplyEnvelopes : \E n, m \in WaitsOf(Solo) :
        /\ sent[Solo][j].id # sent[Solo][j].payload.id
        /\ waits[Solo][n].key = AckKey(sent[Solo][j].id)
        /\ waits[Solo][n].state = "resolved"
        /\ waits[Solo][m].key = AckKey(sent[Solo][j].payload.id)
        /\ waits[Solo][m].state = "resolved"

====
